---- MODULE Spec2Model ----
(***************************************************************************)
(* A model of the diyepw command line scripts:                             *)
(*   _parse_years.py                            parse_years                *)
(*   create_amy_epw_files_for_years_and_wmos.py the batch script           *)
(*   create_amy_epw_files_from_wrf_netcdf.py    the WRF NetCDF script      *)
(* Strings are sequences of one-character strings, so that str(), int(),   *)
(* replace() and split() are computed and not assumed.                     *)
(***************************************************************************)
EXTENDS Integers, Sequences, FiniteSets, TLC

VARIABLES
    pc,            \* position of the running script
    year_spec,     \* what the user means by --years: a sequence of entries
    years_str,     \* args.years, the text handed to parse_years
    this_year,     \* datetime.datetime.now().year as read by parse_years
    years,         \* the list parse_years returned
    wmo_indices,   \* the list get_wmo_indices_list returned
    error,         \* the exception that ended the script, "" when none
    raised_at,     \* where the script was when it was raised
    driver_calls,  \* the arguments of each call of the diyepw driver
    \* create_amy_epw_files_from_wrf_netcdf.py
    wmo_indexes,   \* the stations the script is written for
    station_table, \* Weather_Stations_by_County.csv: station id -> lat, long
    folder,        \* the files of the year's folder, each with its Times and data
    grid,          \* XLAT[0,:,0] and XLONG[0,0,:] of the files
    filenames,     \* the sorted listing of the folder
    file_i,        \* the file the loop of get_wrf_data is at
    wmo_i,         \* the station the running loop is at
    ds,            \* the open dataset
    lru,           \* the lru_cache of get_lat_long_by_wmo_index, oldest first
    table_reads,   \* how often the table was read for each station id
    answers,       \* the coordinates get_lat_long_by_wmo_index returned, by id
    dfs_by_wmo_index, \* station id -> the rows collected so far
    meteorology,   \* the fields set on the Meteorology instance
    written        \* the (station, year) files written

batch_vars == <<year_spec, years_str, this_year, years, wmo_indices, driver_calls>>

wrf_vars == <<wmo_indexes, station_table, folder, grid, filenames, file_i, wmo_i, ds,
              lru, table_reads, answers, dfs_by_wmo_index, meteorology, written>>

vars == <<pc, error, raised_at, batch_vars, wrf_vars>>

----------------------------------------------------------------------------
(* Bounds of the model.                                                    *)

\* The longest --years specification, in entries.
MaxEntries == 2

\* The longest --wmo-indices specification, in entries.
MaxWmos == 1

\* The years an entry may name: either side of 1900 and of the clock's years.
YearTokens == {1899, 1900, 1901, 2027}

\* The years the clock may show when parse_years runs.
ClockYears == {2026, 2027}

\* The station ids an entry of --wmo-indices may name.
WmoTokens == {722195, 724230}

----------------------------------------------------------------------------
(* Text: str(), int(), str.replace(" ", ""), str.split(sep), "-" in s.     *)

Digits == <<"0", "1", "2", "3", "4", "5", "6", "7", "8", "9">>

DigitChars == {Digits[i] : i \in 1..10}

DigitVal(c) == (CHOOSE i \in 1..10 : Digits[i] = c) - 1

RECURSIVE Str(_)
Str(n) == IF n < 10 THEN <<Digits[n + 1]>>
          ELSE Str(n \div 10) \o <<Digits[(n % 10) + 1]>>

\* int(s) raises ValueError unless s is a non-empty run of digits.
IsInt(s) == Len(s) > 0 /\ \A i \in 1..Len(s) : s[i] \in DigitChars

RECURSIVE IntOf(_)
IntOf(s) == IF Len(s) = 0 THEN 0
            ELSE 10 * IntOf(SubSeq(s, 1, Len(s) - 1)) + DigitVal(s[Len(s)])

RemoveSpaces(s) == SelectSeq(s, LAMBDA c : c # " ")

Contains(s, c) == \E i \in 1..Len(s) : s[i] = c

\* s.split(sep): the pieces between the separators, empty pieces included.
RECURSIVE Split(_, _)
Split(s, sep) ==
    IF ~Contains(s, sep) THEN <<s>>
    ELSE LET i == CHOOSE k \in 1..Len(s) :
                      s[k] = sep /\ \A j \in 1..(k - 1) : s[j] # sep
         IN  <<SubSeq(s, 1, i - 1)>> \o Split(SubSeq(s, i + 1, Len(s)), sep)

----------------------------------------------------------------------------
(* The command line a user writes.                                         *)

\* An entry of --years: a single year, or a range a-b.
YearEntries ==
    [kind : {"single"}, a : YearTokens, b : {0}]
    \cup [kind : {"range"}, a : YearTokens, b : YearTokens]

\* A --years specification: its entries, written with or without spaces
\* after the commas and around the hyphens.
YearSpecs ==
    [entries : UNION {[1..n -> YearEntries] : n \in 0..MaxEntries}, spaced : BOOLEAN]

RenderEntry(e, spaced) ==
    IF e.kind = "single" THEN Str(e.a)
    ELSE IF spaced THEN Str(e.a) \o <<" ", "-", " ">> \o Str(e.b)
         ELSE Str(e.a) \o <<"-">> \o Str(e.b)

RECURSIVE RenderYears(_, _)
RenderYears(entries, spaced) ==
    IF Len(entries) = 0 THEN <<>>
    ELSE IF Len(entries) = 1 THEN RenderEntry(entries[1], spaced)
    ELSE RenderEntry(entries[1], spaced)
         \o (IF spaced THEN <<",", " ">> ELSE <<",">>)
         \o RenderYears(Tail(entries), spaced)

WmoSpecs ==
    [entries : UNION {[1..n -> WmoTokens] : n \in 0..MaxWmos}, spaced : BOOLEAN]

RECURSIVE RenderWmos(_, _)
RenderWmos(entries, spaced) ==
    IF Len(entries) = 0 THEN <<>>
    ELSE IF Len(entries) = 1 THEN Str(entries[1])
    ELSE Str(entries[1])
         \o (IF spaced THEN <<",", " ">> ELSE <<",">>)
         \o RenderWmos(Tail(entries), spaced)

----------------------------------------------------------------------------
(* _parse_years.py                                                         *)

\* list(range(a, b + 1))
RangeList(a, b) == [i \in 1..(IF b >= a THEN b - a + 1 ELSE 0) |-> a + i - 1]

\* One pass of the loop over years_str.split(","): the list after the part,
\* or the ValueError of a part that is no year and no a-b.
PartYears(part) ==
    IF Contains(part, "-")
    THEN LET ends == Split(part, "-")
         IN  IF Len(ends) # 2 \/ ~IsInt(ends[1]) \/ ~IsInt(ends[2])
             THEN [ok |-> FALSE, list |-> <<>>]
             ELSE [ok |-> TRUE, list |-> RangeList(IntOf(ends[1]), IntOf(ends[2]))]
    ELSE IF ~IsInt(part)
         THEN [ok |-> FALSE, list |-> <<>>]
         ELSE [ok |-> TRUE, list |-> <<IntOf(part)>>]

RECURSIVE CollectYears(_, _)
CollectYears(parts, years_list) ==
    IF Len(parts) = 0 THEN [ok |-> TRUE, list |-> years_list]
    ELSE LET p == PartYears(parts[1])
         IN  IF ~p.ok THEN [ok |-> FALSE, list |-> <<>>]
             ELSE CollectYears(Tail(parts), years_list \o p.list)

\* A parse_years that forgets to sort.
SortYearsForgotten(years_list) == years_list

\* years_list.sort()
SortYears(years_list) == SortSeq(years_list, LAMBDA x, y : x < y)

\* min(list) and max(list) of a non-empty list.
MinOf(list) ==
    LET values == {list[i] : i \in 1..Len(list)}
    IN  CHOOSE x \in values : \A y \in values : x <= y

MaxOf(list) == 0 - MinOf([i \in 1..Len(list) |-> 0 - list[i]])

FirstYear == 1900

\* A validation that checks only the lower end.
ValidateYearsLowerOnly(years_list, now) ==
    IF Len(years_list) = 0 THEN "ValueError"
    ELSE IF MinOf(years_list) < FirstYear THEN "Exception" ELSE ""

\* The validation of lines 20-23: min() and max() of an empty list raise
\* ValueError, a year outside 1900..this_year raises Exception.
ValidateYears(years_list, now) ==
    IF Len(years_list) = 0 THEN "ValueError"
    ELSE IF MinOf(years_list) < FirstYear \/ MaxOf(years_list) > now
         THEN "Exception"
         ELSE ""

parse_years(s, now) ==
    LET collected == CollectYears(Split(RemoveSpaces(s), ","), <<>>)
        sorted == SortYears(collected.list)
    IN  IF ~collected.ok THEN [error |-> "ValueError", list |-> <<>>]
        ELSE [error |-> ValidateYears(sorted, now),
              list |-> IF ValidateYears(sorted, now) = "" THEN sorted ELSE <<>>]

----------------------------------------------------------------------------
(* create_amy_epw_files_for_years_and_wmos.py                              *)

RECURSIVE CollectWmos(_)
CollectWmos(parts) ==
    IF Len(parts) = 0 THEN [ok |-> TRUE, list |-> <<>>]
    ELSE IF ~IsInt(parts[1]) THEN [ok |-> FALSE, list |-> <<>>]
    ELSE LET rest == CollectWmos(Tail(parts))
         IN  [ok |-> rest.ok,
              list |-> IF rest.ok THEN <<IntOf(parts[1])>> \o rest.list ELSE <<>>]

get_wmo_indices_list(s) == CollectWmos(Split(RemoveSpaces(s), ","))

BatchInit ==
    /\ pc = "parse_years"
    /\ year_spec \in YearSpecs
    /\ years_str = RenderYears(year_spec.entries, year_spec.spaced)
    /\ this_year = 0
    /\ years = <<>>
    /\ wmo_indices = <<>>
    /\ error = ""
    /\ raised_at = ""
    /\ driver_calls = <<>>
    /\ wmo_indexes = <<>>
    /\ station_table = <<>>
    /\ folder = {}
    /\ grid = <<>>
    /\ filenames = <<>>
    /\ file_i = 0
    /\ wmo_i = 0
    /\ ds = <<>>
    /\ lru = <<>>
    /\ table_reads = <<>>
    /\ answers = <<>>
    /\ dfs_by_wmo_index = <<>>
    /\ meteorology = <<>>
    /\ written = {}

\* Line 92: years = parse_years(args.years). An exception ends the script.
ParseYears ==
    /\ pc = "parse_years"
    /\ \E now \in ClockYears :
         LET r == parse_years(years_str, now)
         IN  /\ this_year' = now
             /\ years' = r.list
             /\ error' = r.error
             /\ pc' = IF r.error = "" THEN "get_wmo_indices_list" ELSE "parse_years_raised"
    /\ UNCHANGED <<year_spec, years_str, wmo_indices, driver_calls, raised_at, wrf_vars>>

\* Line 93: wmo_indices = get_wmo_indices_list(args.wmo_indices).
GetWmoIndicesList ==
    /\ pc = "get_wmo_indices_list"
    /\ \E spec \in WmoSpecs :
         LET r == get_wmo_indices_list(RenderWmos(spec.entries, spec.spaced))
         IN  /\ wmo_indices' = r.list
             /\ error' = IF r.ok THEN "" ELSE "ValueError"
             /\ pc' = IF r.ok THEN "driver" ELSE "get_wmo_indices_list_raised"
    /\ UNCHANGED <<year_spec, years_str, this_year, years, driver_calls, raised_at, wrf_vars>>

\* Lines 95-103: the one call of diyepw.create_amy_epw_files_for_years_and_wmos.
CallDriver ==
    /\ pc = "driver"
    /\ driver_calls' = Append(driver_calls, [years |-> years, wmo_indices |-> wmo_indices])
    /\ pc' = "done"
    /\ UNCHANGED <<year_spec, years_str, this_year, years, wmo_indices, error, raised_at, wrf_vars>>

BatchNext == ParseYears \/ GetWmoIndicesList \/ CallDriver

SpecBatch == BatchInit /\ [][BatchNext]_vars

----------------------------------------------------------------------------
(* Claims about parse_years and the batch script.                          *)

\* The years a specification names: each single year, and each year inside
\* a range a-b.
NamedYears(spec) ==
    UNION {IF spec.entries[i].kind = "single" THEN {spec.entries[i].a}
           ELSE spec.entries[i].a .. spec.entries[i].b : i \in 1..Len(spec.entries)}

Parsed == pc # "parse_years"

Ascending(list) == \A i \in 1..(Len(list) - 1) : list[i] <= list[i + 1]

ElementsOf(list) == {list[i] : i \in 1..Len(list)}

NoDuplicates(list) == Cardinality(ElementsOf(list)) = Len(list)

ParsedAsNamed ==
    /\ pc # "parse_years_raised"
    /\ Ascending(years)
    /\ ElementsOf(years) = NamedYears(year_spec)

\* C1, as claimed: for every specification of single years and ranges a-b
\* whose years all lie in 1900..this_year, parse_years returns the named
\* years, and no other, in ascending order.
C1_AsClaimed ==
    (/\ Parsed
     /\ Len(year_spec.entries) > 0
     /\ NamedYears(year_spec) \subseteq FirstYear..this_year) => ParsedAsNamed

\* C1, amended: the same, for specifications that name at least one year
\* (a specification made only of ranges a-b with a > b names none, and
\* parse_years raises ValueError on it).
C1_ParsedAsNamed ==
    (/\ Parsed
     /\ NamedYears(year_spec) # {}
     /\ NamedYears(year_spec) \subseteq FirstYear..this_year) => ParsedAsNamed

\* C1's case: a spaced specification of a single year and a range, given out
\* of order, has been parsed into its three years.
C1_Witness ==
    /\ Parsed
    /\ year_spec.spaced
    /\ Len(year_spec.entries) = 2
    /\ year_spec.entries[1] = [kind |-> "single", a |-> 2027, b |-> 0]
    /\ year_spec.entries[2] = [kind |-> "range", a |-> 1900, b |-> 1901]
    /\ years = <<1900, 1901, 2027>>

\* C2: the list parse_years returns holds no year twice, so the driver is
\* handed each year at most once.
C2_NoDuplicateYears ==
    /\ NoDuplicates(years)
    /\ \A i \in 1..Len(driver_calls) : NoDuplicates(driver_calls[i].years)

SomeNamedYearOutOfRange ==
    \E y \in NamedYears(year_spec) : y < FirstYear \/ y > this_year

\* C3: when a named year (a single year, or a year inside a range) is below
\* 1900 or above the current year, parse_years raises and returns no list,
\* the script ends there, and the driver is never called.
C3_OutOfRangeAborts ==
    (Parsed /\ SomeNamedYearOutOfRange) =>
        /\ pc = "parse_years_raised"
        /\ error # ""
        /\ years = <<>>
        /\ wmo_indices = <<>>
        /\ driver_calls = <<>>

\* C3's case: a specification whose only offence is a year above the current
\* year has ended the script with the range Exception.
C3_Witness ==
    /\ pc = "parse_years_raised"
    /\ error = "Exception"
    /\ this_year = 2026
    /\ 2027 \in NamedYears(year_spec)
    /\ \A y \in NamedYears(year_spec) : y >= FirstYear

----------------------------------------------------------------------------
(* create_amy_epw_files_from_wrf_netcdf.py: what the script is given.      *)

\* Bounds. Timestamps are hours counted to the end of the year: LastHour is
\* 2009-12-31_23:00:00, LastHour - 2 is 2009-12-31_21:00:00.
LastHour == 4

\* The most files a year's folder holds.
MaxFiles == 2

\* Latitudes and longitudes are whole degrees in 0..MaxCoord.
MaxCoord == 3

\* The most stations wmo_indexes holds: one more than the cache holds.
MaxStations == 129

\* Line 87 and line 88.
ScriptWmoIndexes == <<722195, 724230>>

ScriptYear == 2009

\* One row of data at a timestamp: PSFC in Pa, T2 in 1/100 K, Q2 in 1e-6
\* kg/kg, the rest in the units of the file.
DefaultValues ==
    [PSFC |-> 100000, RAINC |-> 0, RAINSH |-> 0, RAINNC |-> 0,
     T2 |-> 27316, U10 |-> 3, V10 |-> 4, Q2 |-> 3800]

RainValues ==
    {[DefaultValues EXCEPT !.RAINC = c, !.RAINSH = sh, !.RAINNC = nc] :
        c \in 0..1, sh \in 0..1, nc \in 0..1}

WindValues ==
    {[DefaultValues EXCEPT !.U10 = u, !.V10 = v] :
        u \in {0 - 4, 0, 3, 4}, v \in {0 - 4, 0, 3, 4}}

HumidityValues ==
    {[DefaultValues EXCEPT !.Q2 = q, !.PSFC = p, !.T2 = t] :
        q \in {2000, 3800}, p \in {95000, 100000}, t \in {26316, 27316, 28316}}

\* A file of the folder: its name sorts as its first timestamp does, its
\* Times are the hours first..last, its data one row of values per hour.
FileOf(first, last, values) ==
    [name |-> first, Times |-> [i \in 1..(last - first + 1) |-> first + i - 1],
     values |-> values]

DefaultFile(first, last) == FileOf(first, last, [t \in first..last |-> DefaultValues])

\* Folders of at most MaxFiles files with distinct names.
Folders ==
    LET files == UNION {{DefaultFile(a, b) : b \in a..LastHour} : a \in 1..LastHour}
    IN  {fs \in SUBSET files :
            /\ Cardinality(fs) <= MaxFiles
            /\ \A f \in fs, g \in fs : f.name = g.name => f = g}

\* A strictly increasing axis of one or two coordinates.
Axes ==
    {<<a>> : a \in 0..MaxCoord}
    \cup UNION {{<<a, b>> : b \in (a + 1)..MaxCoord} : a \in 0..MaxCoord}

Grids == [south_north : Axes, west_east : Axes]

DefaultGrid == [south_north |-> <<1, 2>>, west_east |-> <<1, 2>>]

Location(lat, long) == [lat |-> lat, long |-> long]

DefaultTable == [w \in {722195, 724230} |-> Location(1, 1)]

\* The n stations 700001 .. 700000 + n.
StationIds(n) == [k \in 1..n |-> 700000 + k]

----------------------------------------------------------------------------
(* get_lat_long_by_wmo_index under functools.lru_cache()                   *)

\* The maxsize lru_cache() takes when none is given.
LruMaxSize == 128

Keys(cache) == {cache[i].key : i \in 1..Len(cache)}

Without(cache, key) == SelectSeq(cache, LAMBDA e : e.key # key)

\* A cache that stores nothing.
CacheStoreNothing(cache, key, value) == cache

\* A miss stores the result as the newest entry and drops the oldest entry
\* of a full cache.
CacheStore(cache, key, value) ==
    LET grown == Append(cache, [key |-> key, value |-> value])
    IN  IF Len(grown) > LruMaxSize THEN Tail(grown) ELSE grown

\* A hit makes the entry the newest.
CacheTouch(cache, key) ==
    LET e == CHOOSE x \in {cache[i] : i \in 1..Len(cache)} : x.key = key
    IN  Append(Without(cache, key), e)

\* Lines 31-33: the row of the table with this id; .iloc[0] raises IndexError
\* when there is none.
ReadTable(table, wmo_index) ==
    IF wmo_index \in DOMAIN table
    THEN [raised |-> FALSE, value |-> table[wmo_index]]
    ELSE [raised |-> TRUE, value |-> Location(0, 0)]

\* One call: what it returns or raises, whether the table was read, and the
\* cache after it. An exception is not cached.
get_lat_long_by_wmo_index(cache, table, wmo_index) ==
    IF wmo_index \in Keys(cache)
    THEN [raised |-> FALSE, read |-> FALSE,
          value |-> (CHOOSE x \in {cache[i] : i \in 1..Len(cache)} : x.key = wmo_index).value,
          cache |-> CacheTouch(cache, wmo_index)]
    ELSE LET r == ReadTable(table, wmo_index)
         IN  [raised |-> r.raised, read |-> TRUE, value |-> r.value,
              cache |-> IF r.raised THEN cache ELSE CacheStore(cache, wmo_index, r.value)]

----------------------------------------------------------------------------
(* ds.sel({...}, method='nearest', tolerance=1)                            *)

Tolerance == 1

Abs(x) == IF x < 0 THEN 0 - x ELSE x

\* Index.get_indexer(method='pad'): the last coordinate <= target, 0 if none.
Pad(axis, target) ==
    LET below == {i \in 1..Len(axis) : axis[i] <= target}
    IN  IF below = {} THEN 0 ELSE CHOOSE i \in below : \A j \in below : j <= i

\* Index.get_indexer(method='backfill'): the first coordinate >= target.
Backfill(axis, target) ==
    LET above == {i \in 1..Len(axis) : axis[i] >= target}
    IN  IF above = {} THEN 0 ELSE CHOOSE i \in above : \A j \in above : i <= j

\* A nearest that always takes the first coordinate of the axis.
NearestAlwaysFirst(axis, target) == 1

\* Index.get_indexer(method='nearest') on an increasing index: the left
\* neighbour when it is strictly nearer or there is no right one.
Nearest(axis, target) ==
    LET left == Pad(axis, target)
        right == Backfill(axis, target)
    IN  IF right = 0 THEN left
        ELSE IF left = 0 THEN right
        ELSE IF target - axis[left] < axis[right] - target THEN left ELSE right

\* _filter_indexer_tolerance: the match counts when it is within tolerance.
WithinTolerance(axis, i, target) == Abs(axis[i] - target) <= Tolerance

\* The cell sel picks, each dimension on its own; KeyError when a dimension
\* finds nothing within tolerance.
SelNearest(g, lat, long) ==
    LET r == Nearest(g.south_north, lat)
        c == Nearest(g.west_east, long)
    IN  IF WithinTolerance(g.south_north, r, lat) /\ WithinTolerance(g.west_east, c, long)
        THEN [raised |-> FALSE, row |-> r, col |-> c]
        ELSE [raised |-> TRUE, row |-> 0, col |-> 0]

----------------------------------------------------------------------------
(* The conversions of lines 109-139, in fixed point.                       *)

\* np.sqrt(n) in 1/100, for n = u**2 + v**2 with |u| + |v| <= bound.
SqrtCenti(n, bound) ==
    CHOOSE r \in 0..(100 * bound) : r * r <= 10000 * n /\ 10000 * n < (r + 1) * (r + 1)

\* arctan(2**-i) in 1/1000 degree, i = 0, 1, ...
ArctanTable ==
    <<45000, 26565, 14036, 7125, 3576, 1790, 895, 448, 224, 112, 56, 28, 14, 7>>

Pow2(i) == [k \in 0..13 |-> IF k = 0 THEN 1 ELSE 2 ^ k][i]

\* arctan(y / x) for x > 0 in 1/1000 degree: the vector is turned onto the
\* x axis by the angles of ArctanTable, whose sum is the angle it had.
RECURSIVE Cordic(_, _, _, _)
Cordic(x, y, angle, i) ==
    IF i > Len(ArctanTable) \/ y = 0 THEN angle
    ELSE IF y > 0
         THEN Cordic(x + y \div Pow2(i - 1), y - x \div Pow2(i - 1),
                     angle + ArctanTable[i], i + 1)
         ELSE Cordic(x - y \div Pow2(i - 1), y + x \div Pow2(i - 1),
                     angle - ArctanTable[i], i + 1)

\* np.degrees(np.arctan2(v, u)) in 1/1000 degree: in (-180, 180].
ArcTan2MilliDeg(v, u) ==
    IF u > 0 THEN Cordic(4096 * u, 4096 * v, 0, 1)
    ELSE IF u < 0
         THEN IF v >= 0 THEN 180000 - Cordic(0 - 4096 * u, 4096 * v, 0, 1)
              ELSE 0 - 180000 - Cordic(0 - 4096 * u, 4096 * v, 0, 1)
    ELSE IF v > 0 THEN 90000 ELSE IF v < 0 THEN 0 - 90000 ELSE 0

\* A conversion that brings the direction into [0, 360).
WindDirNormalized(u, v) == (ArcTan2MilliDeg(v, u) + 360000) % 360000

\* Lines 18-23: speed in 1/100 m/s, direction in 1/1000 degree.
convert_wind_vectors_to_speed_and_dir(u, v) ==
    [speed |-> SqrtCenti(u * u + v * v, Abs(u) + Abs(v)),
     direction |-> ArcTan2MilliDeg(v, u)]

\* np.exp(x) in 1/1000 for x in 1/1000: the sum of x**k / k!, k = 0..12.
RECURSIVE ExpTerms(_, _, _)
ExpTerms(x, term, k) ==
    IF k > 12 THEN 0
    ELSE term + ExpTerms(x, (term * x) \div (1000 * (k + 1)), k + 1)

ExpMilli(x) == ExpTerms(x, 1000, 0)

\* 17.2693882 * (T2 - 273.16) / (T2 - 35.86) in 1/1000, T2 in 1/100 K.
Exponent(t2) == (17269 * (t2 - 27316)) \div (t2 - 3586)

\* 379.90516 / PSFC in 1e-6.
SaturationRatio(psfc) == 379905160 \div psfc

\* Line 139 as it is evaluated, left to right: (Q2 / (379.90516 / PSFC)) * exp(...),
\* in 1/1000.
RelativeHumidity(q2, psfc, t2) ==
    (((q2 * 1000) \div SaturationRatio(psfc)) * ExpMilli(Exponent(t2))) \div 1000

\* np.sum([a, b, c]) of three columns: numpy stacks the list into one array
\* and, given no axis, adds up all of it: one number.
RECURSIVE SumAll(_)
SumAll(rows) ==
    IF Len(rows) = 0 THEN 0
    ELSE rows[1].RAINC + rows[1].RAINSH + rows[1].RAINNC + SumAll(Tail(rows))

\* Lines 110-139: the value handed to each meteorology.set, a column (one
\* value per row of df) or a single number.
Column(values) == [scalar |-> FALSE, value |-> values]

Scalar(x) == [scalar |-> TRUE, value |-> x]

InjectedFields(df) ==
    [Patm |-> Column([i \in 1..Len(df) |-> df[i].PSFC]),
     LiqPrecDepth |-> Scalar(SumAll(df)),
     Tdb |-> Column([i \in 1..Len(df) |-> df[i].T2 + 27315]),
     Wspeed |-> Column([i \in 1..Len(df) |->
                   convert_wind_vectors_to_speed_and_dir(df[i].U10, df[i].V10).speed]),
     Wdir |-> Column([i \in 1..Len(df) |->
                   convert_wind_vectors_to_speed_and_dir(df[i].U10, df[i].V10).direction]),
     RH |-> Column([i \in 1..Len(df) |-> RelativeHumidity(df[i].Q2, df[i].PSFC, df[i].T2)])]

\* The value a field holds at row i: a single number fills every row.
ValueAt(field, i) == IF field.scalar THEN field.value ELSE field.value[i]

----------------------------------------------------------------------------
(* create_amy_epw_files_from_wrf_netcdf.py: the script.                    *)

WrfStart ==
    /\ pc = "listdir"
    /\ error = ""
    /\ raised_at = ""
    /\ year_spec = [entries |-> <<>>, spaced |-> FALSE]
    /\ years_str = <<>>
    /\ this_year = 0
    /\ years = <<ScriptYear>>
    /\ wmo_indices = <<>>
    /\ driver_calls = <<>>
    /\ filenames = <<>>
    /\ file_i = 0
    /\ wmo_i = 0
    /\ ds = <<>>
    /\ lru = <<>>
    /\ table_reads = [w \in {wmo_indexes[i] : i \in 1..Len(wmo_indexes)} |-> 0]
    /\ answers = [w \in {wmo_indexes[i] : i \in 1..Len(wmo_indexes)} |-> {}]
    /\ dfs_by_wmo_index = <<>>
    /\ meteorology = <<>>
    /\ written = {}

\* The script as written, over the folders a year may have.
FoldersInit ==
    /\ wmo_indexes = ScriptWmoIndexes
    /\ station_table = DefaultTable
    /\ grid = DefaultGrid
    /\ folder \in Folders
    /\ WrfStart

\* The script as written, over the grids of the files and the places and
\* the presence of the stations in the table.
GridsInit ==
    /\ wmo_indexes = ScriptWmoIndexes
    /\ \E lat \in 0..MaxCoord, long \in 0..MaxCoord :
         station_table \in {[w \in {722195} |-> Location(lat, long)],
                            [w \in {722195, 724230} |-> Location(lat, long)]}
    /\ grid \in Grids
    /\ folder = {DefaultFile(LastHour - 2, LastHour - 2)}
    /\ WrfStart

\* The script as written, over the data of a file of two hours.
ValuesInit ==
    /\ wmo_indexes = ScriptWmoIndexes
    /\ station_table = DefaultTable
    /\ grid = DefaultGrid
    /\ \E values \in [(LastHour - 3)..(LastHour - 2) ->
                         RainValues \cup WindValues \cup HumidityValues] :
         folder = {FileOf(LastHour - 3, LastHour - 2, values)}
    /\ WrfStart

\* The script with wmo_indexes of one, two and about LruMaxSize stations.
StationsInit ==
    /\ \E n \in {1, 2} \cup (LruMaxSize - 1)..MaxStations :
         /\ wmo_indexes = StationIds(n)
         /\ station_table = [w \in {700000 + k : k \in 1..n} |-> Location(1, 1)]
    /\ grid = DefaultGrid
    /\ folder = {DefaultFile(LastHour - 3, LastHour - 3), DefaultFile(LastHour - 2, LastHour - 2)}
    /\ WrfStart

\* An exception nobody catches ends the script.
Crash(exception) ==
    /\ pc' = "crashed"
    /\ error' = exception
    /\ raised_at' = pc

NoException == UNCHANGED <<error, raised_at>>

\* After the rows of one station: the next station, the next file, or the
\* return of get_wrf_data into the loop of line 96.
AfterExtract ==
    IF wmo_i < Len(wmo_indexes)
    THEN /\ wmo_i' = wmo_i + 1
         /\ pc' = "extract"
         /\ UNCHANGED <<file_i, ds>>
    ELSE IF file_i < Len(filenames)
    THEN /\ file_i' = file_i + 1
         /\ pc' = "open_dataset"
         /\ UNCHANGED <<wmo_i, ds>>
    ELSE /\ wmo_i' = 1
         /\ pc' = "patch"
         /\ UNCHANGED <<file_i, ds>>

\* Lines 47-52: the dict of None, the sorted listing of the year's folder.
ListDir ==
    /\ pc = "listdir"
    /\ filenames' = SortSeq(
           CHOOSE s \in [1..Cardinality(folder) -> {f.name : f \in folder}] :
               \A i, j \in 1..Cardinality(folder) : i # j => s[i] # s[j],
           LAMBDA a, b : a < b)
    /\ dfs_by_wmo_index' = [w \in {wmo_indexes[i] : i \in 1..Len(wmo_indexes)} |-> <<>>]
    /\ IF folder = {}
       THEN pc' = "patch" /\ wmo_i' = 1 /\ file_i' = 0
       ELSE pc' = "open_dataset" /\ file_i' = 1 /\ wmo_i' = 0
    /\ UNCHANGED <<error, raised_at, batch_vars, wmo_indexes, station_table, folder, grid, ds, lru,
                   table_reads, answers, meteorology, written>>

\* Line 51: there is no folder for the year.
ListDirRaises ==
    /\ pc = "listdir"
    /\ Crash("FileNotFoundError")
    /\ UNCHANGED <<batch_vars, wrf_vars>>

\* Lines 58-64: the file is opened and reindexed by Times, XLONG and XLAT.
OpenDataset ==
    /\ pc = "open_dataset"
    /\ ds' = CHOOSE f \in folder : f.name = filenames[file_i]
    /\ wmo_i' = 1
    /\ pc' = "extract"
    /\ UNCHANGED <<error, raised_at, batch_vars, wmo_indexes, station_table, folder, grid, filenames,
                   file_i, lru, table_reads, answers, dfs_by_wmo_index, meteorology, written>>

\* Line 58: the file cannot be read as a dataset.
OpenDatasetRaises ==
    /\ pc = "open_dataset"
    /\ Crash("OSError")
    /\ UNCHANGED <<batch_vars, wrf_vars>>

\* Lines 67-81 for one station: its place, the nearest cell of the open
\* dataset, the rows at that cell, appended to what the station has.
ExtractStation ==
    /\ pc = "extract"
    /\ LET wmo_index == wmo_indexes[wmo_i]
           place == get_lat_long_by_wmo_index(lru, station_table, wmo_index)
           cell == SelNearest(grid, place.value.lat, place.value.long)
           ds_at_lat_long ==
               [i \in 1..Len(ds.Times) |->
                   [Time |-> ds.Times[i], row |-> cell.row, col |-> cell.col]
                   @@ ds.values[ds.Times[i]]]
       IN  /\ lru' = place.cache
           /\ table_reads' = IF place.read
                             THEN [table_reads EXCEPT ![wmo_index] = @ + 1]
                             ELSE table_reads
           /\ IF place.raised
              THEN /\ Crash("IndexError")
                   /\ UNCHANGED <<answers, dfs_by_wmo_index, file_i, wmo_i, ds>>
              ELSE /\ answers' = [answers EXCEPT ![wmo_index] = @ \cup {place.value}]
                   /\ IF cell.raised
                      THEN /\ Crash("KeyError")
                           /\ UNCHANGED <<dfs_by_wmo_index, file_i, wmo_i, ds>>
                      ELSE /\ dfs_by_wmo_index' =
                                [dfs_by_wmo_index EXCEPT ![wmo_index] = @ \o ds_at_lat_long]
                           /\ NoException
                           /\ AfterExtract
    /\ UNCHANGED <<batch_vars, wmo_indexes, station_table, folder, grid, filenames,
                   meteorology, written>>

RowsAt(df, time) == {i \in 1..Len(df) : df[i].Time = time}

\* df.loc[label] = source: every row with the label takes the values of
\* source; without such a row, one is appended.
SetRow(df, label, source) ==
    IF RowsAt(df, label) = {}
    THEN Append(df, [source EXCEPT !.Time = label])
    ELSE [i \in 1..Len(df) |-> IF df[i].Time = label
                               THEN [source EXCEPT !.Time = label] ELSE df[i]]

\* Lines 97-102: the rows of 22:00 and 23:00 are those of 21:00. KeyError
\* without a 21:00 row (AttributeError with no file at all, df being None,
\* which the empty sequence stands for); with several
\* 21:00 rows the right side is a frame, not a row, and the assignment
\* raises ValueError.
PatchLastHours ==
    /\ pc = "patch"
    /\ LET wmo_index == wmo_indexes[wmo_i]
           df == dfs_by_wmo_index[wmo_index]
           at21 == RowsAt(df, LastHour - 2)
       IN  IF Len(df) = 0 THEN Crash("AttributeError") /\ UNCHANGED dfs_by_wmo_index
           ELSE IF at21 = {} THEN Crash("KeyError") /\ UNCHANGED dfs_by_wmo_index
           ELSE IF Cardinality(at21) > 1
                THEN Crash("ValueError") /\ UNCHANGED dfs_by_wmo_index
           ELSE LET source == df[CHOOSE i \in at21 : TRUE]
                IN  /\ dfs_by_wmo_index' =
                         [dfs_by_wmo_index EXCEPT ![wmo_index] =
                             SetRow(SetRow(df, LastHour - 1, source), LastHour, source)]
                    /\ pc' = "get_tmy"
                    /\ NoException
    /\ UNCHANGED <<batch_vars, wmo_indexes, station_table, folder, grid, filenames, file_i,
                   wmo_i, ds, lru, table_reads, answers, meteorology, written>>

\* Lines 106-107: the TMY file of the station, read into a Meteorology.
GetTmy ==
    /\ pc = "get_tmy"
    /\ meteorology' = <<>>
    /\ pc' = "inject"
    /\ UNCHANGED <<error, raised_at, batch_vars, wmo_indexes, station_table, folder, grid, filenames,
                   file_i, wmo_i, ds, lru, table_reads, answers, dfs_by_wmo_index, written>>

\* Lines 106-107: there is no TMY file to be had for the station.
GetTmyRaises ==
    /\ pc = "get_tmy"
    /\ Crash("Exception")
    /\ UNCHANGED <<batch_vars, wrf_vars>>

\* Lines 110-139: the six meteorology.set calls.
Inject ==
    /\ pc = "inject"
    /\ meteorology' = InjectedFields(dfs_by_wmo_index[wmo_indexes[wmo_i]])
    /\ pc' = "write_epw"
    /\ UNCHANGED <<error, raised_at, batch_vars, wmo_indexes, station_table, folder, grid, filenames,
                   file_i, wmo_i, ds, lru, table_reads, answers, dfs_by_wmo_index, written>>

\* Lines 143-145: the file is written; then the next station of line 96, or
\* the end of the loop of line 91 over the one year.
WriteEpw ==
    /\ pc = "write_epw"
    /\ written' = written \cup {<<wmo_indexes[wmo_i], years[1]>>}
    /\ IF wmo_i < Len(wmo_indexes)
       THEN wmo_i' = wmo_i + 1 /\ pc' = "patch"
       ELSE wmo_i' = wmo_i /\ pc' = "done"
    /\ UNCHANGED <<error, raised_at, batch_vars, wmo_indexes, station_table, folder, grid, filenames,
                   file_i, ds, lru, table_reads, answers, dfs_by_wmo_index, meteorology>>

\* Line 144: the file cannot be written.
WriteEpwRaises ==
    /\ pc = "write_epw"
    /\ Crash("OSError")
    /\ UNCHANGED <<batch_vars, wrf_vars>>

WrfNext ==
    \/ ListDir \/ ListDirRaises
    \/ OpenDataset \/ OpenDatasetRaises
    \/ ExtractStation
    \/ PatchLastHours
    \/ GetTmy \/ GetTmyRaises
    \/ Inject
    \/ WriteEpw \/ WriteEpwRaises

SpecWrfFolders == FoldersInit /\ [][WrfNext]_vars

SpecWrfGrids == GridsInit /\ [][WrfNext]_vars

SpecWrfValues == ValuesInit /\ [][WrfNext]_vars

SpecWrfStations == StationsInit /\ [][WrfNext]_vars

----------------------------------------------------------------------------
(* Claims about the WRF NetCDF script.                                     *)

Stations == {wmo_indexes[i] : i \in 1..Len(wmo_indexes)}

\* The stages that work on one station of one year: station lookup and
\* nearest-cell selection, template acquisition, injection, writing.
TaskStages == {"extract", "get_tmy", "inject", "write_epw"}

\* C4: when the work on one (station, year) fails at any stage, every other
\* requested (station, year) still reaches its own outcome: here its file is
\* written, the script having failed once and for another station.
C4_SiblingsRunOn ==
    (pc = "crashed" /\ raised_at \in TaskStages) =>
        \A w \in Stations \ {wmo_indexes[wmo_i]} : <<w, ScriptYear>> \in written

Injected == pc = "write_epw"

CurrentDf == dfs_by_wmo_index[wmo_indexes[wmo_i]]

\* C5: the precipitation depth set for each timestamp is the sum of the three
\* components at that timestamp.
C5_PrecipitationPerTimestamp ==
    Injected =>
        \A i \in 1..Len(CurrentDf) :
            ValueAt(meteorology.LiqPrecDepth, i)
                = CurrentDf[i].RAINC + CurrentDf[i].RAINSH + CurrentDf[i].RAINNC

\* q / ((379.90516 / P) * exp(...)), the exponential in the denominator, in
\* 1/1000.
HumidityExpInDenominator(q2, psfc, t2) ==
    (q2 * 1000) \div ((SaturationRatio(psfc) * ExpMilli(Exponent(t2))) \div 1000)

\* C6: the relative humidity set for each timestamp is q divided by the whole
\* product (379.90516 / P) * exp(17.2693882 * (T - 273.16) / (T - 35.86)),
\* to the last digit of the fixed point.
C6_HumidityDividesByExp ==
    Injected =>
        \A i \in 1..Len(CurrentDf) :
            Abs(ValueAt(meteorology.RH, i)
                - HumidityExpInDenominator(CurrentDf[i].Q2, CurrentDf[i].PSFC, CurrentDf[i].T2))
              <= 1

\* C7: the wind direction set for each timestamp is atan2(v, u) in degrees
\* brought into [0, 360): never negative, never 360 or more.
C7_DirectionNormalized ==
    Injected =>
        \A i \in 1..Len(CurrentDf) :
            /\ ValueAt(meteorology.Wdir, i) >= 0
            /\ ValueAt(meteorology.Wdir, i) < 360000
            /\ ValueAt(meteorology.Wdir, i) = WindDirNormalized(CurrentDf[i].U10, CurrentDf[i].V10)

\* get_wrf_data has just returned: the loop of line 96 is at its first
\* station and no row has been touched yet.
Returned == pc = "patch" /\ wmo_i = 1

\* C8: the series get_wrf_data returns for a station has strictly increasing
\* timestamps (sorted, and a timestamp two files share kept once).
C8_TimestampsStrictlyIncrease ==
    Returned =>
        \A w \in Stations :
            \A i \in 1..(Len(dfs_by_wmo_index[w]) - 1) :
                dfs_by_wmo_index[w][i].Time < dfs_by_wmo_index[w][i + 1].Time

ReadAtMostOnce ==
    \A w \in Stations :
        /\ table_reads[w] <= 1
        /\ answers[w] \subseteq {station_table[w]}

\* C9, as claimed: for any number of distinct stations, the table is read at
\* most once per station id and every answer is the station's coordinates.
C9_AsClaimed == ReadAtMostOnce

\* C9, amended: the same for at most 128 distinct stations, the entries the
\* lru_cache holds.
C9_ReadOncePerStation == Len(wmo_indexes) <= LruMaxSize => ReadAtMostOnce

\* C9's case: as many stations as the cache holds have been looked up for
\* both files, each read from the table once and answered twice.
C9_Witness ==
    /\ Len(wmo_indexes) = LruMaxSize
    /\ Returned
    /\ file_i = 2
    /\ \A w \in Stations : table_reads[w] = 1 /\ answers[w] = {station_table[w]}
    /\ \A w \in Stations : Len(dfs_by_wmo_index[w]) = 2

\* The square of the Euclidean distance of a cell from a place.
Dist2(place, r, c) ==
    (grid.south_north[r] - place.lat) * (grid.south_north[r] - place.lat)
    + (grid.west_east[c] - place.long) * (grid.west_east[c] - place.long)

Cells == (1..Len(grid.south_north)) \X (1..Len(grid.west_east))

NearestDist2(place) ==
    CHOOSE d \in {Dist2(place, cell[1], cell[2]) : cell \in Cells} :
        \A cell \in Cells : d <= Dist2(place, cell[1], cell[2])

\* The larger of the two distances, in latitude and in longitude, of the
\* nearest cell.
NearestAxisDistance(place) ==
    LET dlat == CHOOSE d \in {Abs(grid.south_north[r] - place.lat) : r \in 1..Len(grid.south_north)} :
                    \A r \in 1..Len(grid.south_north) : d <= Abs(grid.south_north[r] - place.lat)
        dlong == CHOOSE d \in {Abs(grid.west_east[c] - place.long) : c \in 1..Len(grid.west_east)} :
                    \A c \in 1..Len(grid.west_east) : d <= Abs(grid.west_east[c] - place.long)
    IN  IF dlat > dlong THEN dlat ELSE dlong

Selected(w) == w \in DOMAIN dfs_by_wmo_index /\ Len(dfs_by_wmo_index[w]) > 0

Rejected(w) ==
    /\ pc = "crashed"
    /\ raised_at = "extract"
    /\ error = "KeyError"
    /\ wmo_indexes[wmo_i] = w

\* The rows of a selected station come from a cell no other cell is nearer
\* than.
SelectedIsNearest(w) ==
    \A i \in 1..Len(dfs_by_wmo_index[w]) :
        Dist2(station_table[w], dfs_by_wmo_index[w][i].row, dfs_by_wmo_index[w][i].col)
            = NearestDist2(station_table[w])

====
